---- MODULE Spec2Model ----
(***************************************************************************)
(* A model of pyseneye.sud: the fixed-layout decoder (struct.unpack and    *)
(* BaseResponse.__init__), the response classes, the ACTION_DEFINITIONS    *)
(* registry and the write-then-poll loop of SUDevice.action.               *)
(*                                                                         *)
(* Python values are records [t |-> type name, v |-> sequence of ints]:    *)
(*   bytes / array('B')  v = the bytes;   int  v = <<n>>;                   *)
(*   bool  v = <<0>> or <<1>>;   None  v = <<>>.                            *)
(* bytes and array('B') are different types and never compare equal.       *)
(***************************************************************************)
EXTENDS Integers, Sequences, FiniteSets, TLC

(***************************************************************************)
(* Bounds of the model.                                                    *)
(***************************************************************************)
\* number of distinct packet bodies the transport can deliver
NumBodies == 2
\* most transport reads modelled within one call of action()
MaxReads == 3
\* largest timeout (in clock ticks of one millisecond) a caller passes
MaxTimeout == 1
\* most clock ticks that pass during one blocking transport call
MaxAdvance == 2
\* calls of action() modelled on one device
MaxCalls == 2

(***************************************************************************)
(* Python values.                                                          *)
(***************************************************************************)
None == [t |-> "None", v |-> <<>>]
PyInt(n) == [t |-> "int", v |-> <<n>>]
PyBool(b) == [t |-> "bool", v |-> IF b THEN <<1>> ELSE <<0>>]
PyBytes(s) == [t |-> "bytes", v |-> s]
PyArray(s) == [t |-> "array", v |-> s]
\* Python's == on the values above
PyEq(a, b) == a.t = b.t /\ a.v = b.v

\* seq[lo:hi] of Python, on a 1-indexed sequence (0-indexed lo, exclusive hi)
Slice(s, lo, hi) ==
    LET h == IF hi > Len(s) THEN Len(s) ELSE hi
    IN  IF lo >= h THEN <<>> ELSE [i \in 1..(h - lo) |-> s[lo + i]]

(***************************************************************************)
(* struct format strings, sud.py lines 36-54.  A format is the sequence of *)
(* its <<repeat count, type code>> items; + of the source is \o.           *)
(***************************************************************************)
B_LIGHTMETER == << <<11, "s">>, <<3, "i">>, <<2, "I">>, <<1, "B">> >>

SUDREADING_VALUES ==
    << <<2, "s">>, <<3, "H">>, <<1, "i">>, <<13, "s">> >> \o B_LIGHTMETER

SUDREADING ==
    << <<2, "s">>, <<1, "I">> >> \o SUDREADING_VALUES \o << <<1, "c">> >>

\* the light-meter layout with the light block where SUDREADING has it
LightmeterAtSensorOffsets ==
    << <<2, "s">>, <<1, "?">>, <<39, "s">>, <<3, "i">>, <<2, "I">>,
       <<1, "B">>, <<1, "s">> >>

SUDLIGHTMETER ==
    << <<2, "s">>, <<1, "?">> >> \o B_LIGHTMETER \o << <<29, "s">> >>

RESPONSE == << <<2, "s">>, <<1, "?">> >>

GENERIC_RESPONSE == RESPONSE \o << <<61, "s">> >>

HELLOSUD_RESPONSE == RESPONSE \o << <<1, "B">>, <<1, "H">>, <<58, "s">> >>

(***************************************************************************)
(* Names of the return values, sud.py lines 63-70; the comma separated     *)
(* string is kept as the list that split(",") makes of it.                 *)
(***************************************************************************)
LIGHT_SENSOR_SUB_VALUES ==
    <<"kelvin", "kelvin_x", "kelvin_y", "par", "lux", "pur", "unused">>

\* the names of the sensor payload with ph and nh3 right after flags
SensorValuesPhFirst ==
    <<"validation_bytes", "timestamp", "flags", "ph", "nh3", "unused",
      "temperature", "unused", "unused">> \o LIGHT_SENSOR_SUB_VALUES

SENSOR_RETURN_VALUES ==
    <<"validation_bytes", "timestamp", "flags", "unused", "ph", "nh3",
      "temperature", "unused", "unused">> \o LIGHT_SENSOR_SUB_VALUES

\* the unused block after is_kelvin named flags
LightValuesNamingFlags ==
    <<"validation_bytes", "is_kelvin", "flags">> \o LIGHT_SENSOR_SUB_VALUES

LIGHT_SENSOR_RETURN_VALUES ==
    <<"validation_bytes", "is_kelvin", "unused">> \o LIGHT_SENSOR_SUB_VALUES

HELLOSUD_RETURN_VALUES ==
    <<"validation_bytes", "ack", "device_type", "version", "unused">>

\* the names of the generic reply without the trailing unused block
GenericValuesNoUnused == <<"validation_bytes", "ack">>

GENERIC_RETURN_VALUES == <<"validation_bytes", "ack", "unused">>

(***************************************************************************)
(* struct.unpack for the little-endian ("<") standard sizes.               *)
(***************************************************************************)
\* bytes one value of the type code takes; "s" takes its repeat count
CodeSize(code) ==
    CASE code = "I" -> 4
      [] code = "i" -> 4
      [] code = "H" -> 2
      [] code = "B" -> 1
      [] code = "?" -> 1
      [] code = "c" -> 1

\* the fields of a format, one per unpacked value: <<type code, size>>
RECURSIVE Fields(_)
Fields(fmt) ==
    IF fmt = <<>> THEN <<>>
    ELSE LET n == fmt[1][1]
             code == fmt[1][2]
         IN  (IF code = "s" THEN << <<"s", n>> >>
              ELSE [i \in 1..n |-> <<code, CodeSize(code)>>])
             \o Fields(Tail(fmt))

\* struct.calcsize
RECURSIVE CalcSize(_)
CalcSize(fields) ==
    IF fields = <<>> THEN 0 ELSE fields[1][2] + CalcSize(Tail(fields))

\* little-endian unsigned value of a byte sequence
RECURSIVE LEUnsigned(_)
LEUnsigned(bs) ==
    IF bs = <<>> THEN 0 ELSE bs[1] + 256 * LEUnsigned(Tail(bs))

\* little-endian two's complement value of a byte sequence
LESigned(bs) ==
    LET n == Len(bs)
        top == bs[n]
        low == LEUnsigned(SubSeq(bs, 1, n - 1))
        RECURSIVE Pow256(_)
        Pow256(k) == IF k = 0 THEN 1 ELSE 256 * Pow256(k - 1)
    IN  low + (IF top >= 128 THEN top - 256 ELSE top) * Pow256(n - 1)

\* the Python value one field unpacks to
UnpackField(code, bs) ==
    CASE code = "s" -> PyBytes(bs)
      [] code = "c" -> PyBytes(bs)
      [] code = "?" -> PyBool(bs[1] # 0)
      [] code = "i" -> PyInt(LESigned(bs))
      [] OTHER -> PyInt(LEUnsigned(bs))

RECURSIVE UnpackFrom(_, _, _)
UnpackFrom(fields, raw, off) ==
    IF fields = <<>> THEN <<>>
    ELSE <<UnpackField(fields[1][1], SubSeq(raw, off + 1, off + fields[1][2]))>>
         \o UnpackFrom(Tail(fields), raw, off + fields[1][2])

\* struct.unpack(fmt, raw): the tuple of values, or struct.error when the
\* buffer is not exactly calcsize(fmt) bytes long
Unpack(fmt, raw) ==
    LET fields == Fields(fmt)
    IN  IF Len(raw) # CalcSize(fields)
        THEN [ok |-> FALSE, values |-> <<>>]
        ELSE [ok |-> TRUE, values |-> UnpackFrom(fields, raw, 0)]

(***************************************************************************)
(* Read definitions and the registry, sud.py lines 390-486.                *)
(***************************************************************************)
ReadDefinition(parse_str, validator, return_values, return_type) ==
    [parse_str |-> parse_str, validator |-> validator,
     return_values |-> return_values, return_type |-> return_type]

ActionDefinition(cmd_str, rdefs) ==
    [cmd_str |-> cmd_str, read_definitions |-> rdefs]

PyStr(s) == [t |-> "str", v |-> <<s>>]

\* class Action(Enum)
Action ==
    {"SENSOR_READING", "ENTER_INTERACTIVE_MODE", "LEAVE_INTERACTIVE_MODE",
     "LIGHT_READING"}

\* the two read definitions of SENSOR_READING in the other order
SensorActionPayloadFirst ==
    ActionDefinition(PyStr("READING"),
        << ReadDefinition(SUDREADING, PyArray(<<0, 1>>),
                          SENSOR_RETURN_VALUES, "SensorReadingResponse"),
           ReadDefinition(GENERIC_RESPONSE, PyArray(<<136, 2>>),
                          GENERIC_RETURN_VALUES, "Response") >>)

SensorAction ==
    ActionDefinition(PyStr("READING"),
        << ReadDefinition(GENERIC_RESPONSE, PyArray(<<136, 2>>),
                          GENERIC_RETURN_VALUES, "Response"),
           ReadDefinition(SUDREADING, PyArray(<<0, 1>>),
                          SENSOR_RETURN_VALUES, "SensorReadingResponse") >>)

\* LIGHT_READING expecting the validator of the sensor payload
LightActionSensorValidator ==
    ActionDefinition(None,
        << ReadDefinition(SUDLIGHTMETER, PyArray(<<0, 1>>),
                          LIGHT_SENSOR_RETURN_VALUES, "SensorReadingResponse") >>)

LightAction ==
    ActionDefinition(None,
        << ReadDefinition(SUDLIGHTMETER, PyArray(<<0, 2>>),
                          LIGHT_SENSOR_RETURN_VALUES, "SensorReadingResponse") >>)

EnterAction ==
    ActionDefinition(PyStr("HELLOSUD"),
        << ReadDefinition(HELLOSUD_RESPONSE, PyArray(<<136, 1>>),
                          HELLOSUD_RETURN_VALUES, "EnterInteractiveResponse") >>)

LeaveAction ==
    ActionDefinition(PyStr("BYESUD"),
        << ReadDefinition(GENERIC_RESPONSE, PyArray(<<119, 1>>),
                          GENERIC_RETURN_VALUES, "Response") >>)

ACTION_DEFINITIONS(cmd) ==
    CASE cmd = "SENSOR_READING" -> SensorAction
      [] cmd = "LIGHT_READING" -> LightAction
      [] cmd = "ENTER_INTERACTIVE_MODE" -> EnterAction
      [] cmd = "LEAVE_INTERACTIVE_MODE" -> LeaveAction

(***************************************************************************)
(* The response classes, sud.py lines 90-354.  An object is the function   *)
(* from its attribute names to their values.                               *)
(***************************************************************************)
SetAttr(attrs, name, val) ==
    [a \in (DOMAIN attrs) \cup {name} |-> IF a = name THEN val ELSE attrs[a]]

\* the loop of BaseResponse.__init__, lines 110-112, from index i (1-based)
RECURSIVE AssignFrom(_, _, _, _, _)
AssignFrom(attrs, expected_values, parsed_values, i, length) ==
    IF i > length THEN attrs
    ELSE AssignFrom(SetAttr(attrs, "_" \o expected_values[i], parsed_values[i]),
                    expected_values, parsed_values, i + 1, length)

\* the setattr calls that loop makes, in order: <<attribute, value>>
AssignLog(expected_values, parsed_values, length) ==
    [i \in 1..length |-> <<"_" \o expected_values[i], parsed_values[i]>>]

\* __init__ with zip() in place of the count check and the indexed loop,
\* and without line 115
BaseInitZip(attrs, raw_data, read_def) ==
    LET parsed == Unpack(read_def.parse_str, raw_data.v)
        expected_values == read_def.return_values
        n == IF Len(parsed.values) < Len(expected_values)
             THEN Len(parsed.values) ELSE Len(expected_values)
    IN  IF ~parsed.ok
        THEN [status |-> "struct.error", attrs |-> attrs, assigned |-> <<>>]
        ELSE [status |-> "ok",
              attrs |-> AssignFrom(attrs, expected_values, parsed.values, 1, n),
              assigned |-> AssignLog(expected_values, parsed.values, n)]

\* __init__ without line 115: _validation_bytes stays the bytes object that
\* struct.unpack made of the "2s" field
BaseInitKeepsBytes(attrs, raw_data, read_def) ==
    LET parsed == Unpack(read_def.parse_str, raw_data.v)
        length == Len(parsed.values)
        expected_values == read_def.return_values
    IN  IF ~parsed.ok
        THEN [status |-> "struct.error", attrs |-> attrs, assigned |-> <<>>]
        ELSE IF length # Len(expected_values)
        THEN [status |-> "ValueError", attrs |-> attrs, assigned |-> <<>>]
        ELSE [status |-> "ok",
              attrs |-> AssignFrom(attrs, expected_values, parsed.values, 1, length),
              assigned |-> AssignLog(expected_values, parsed.values, length)]

\* BaseResponse.__init__ on an object whose subclass has set `attrs`.
\* status: "ok", or the exception that leaves __init__
BaseInit(attrs, raw_data, read_def) ==
    LET parsed == Unpack(read_def.parse_str, raw_data.v)
        length == Len(parsed.values)
        expected_values == read_def.return_values
    IN  IF ~parsed.ok
        THEN [status |-> "struct.error", attrs |-> attrs, assigned |-> <<>>]
        ELSE IF length # Len(expected_values)
        THEN [status |-> "ValueError", attrs |-> attrs, assigned |-> <<>>]
        ELSE [status |-> "ok",
              attrs |-> SetAttr(
                  AssignFrom(attrs, expected_values, parsed.values, 1, length),
                  "_validation_bytes",
                  [t |-> raw_data.t, v |-> Slice(raw_data.v, 0, 2)]),
              assigned |-> AssignLog(expected_values, parsed.values, length)]

\* the attributes each __init__ sets before it calls super().__init__
ResponseDefaults == [a \in {"_ack"} |-> PyBool(FALSE)]

EnterInteractiveDefaults ==
    SetAttr(SetAttr(ResponseDefaults, "_device_type", None),
            "_version", PyInt(0))

SensorReadingDefaults ==
    [a \in {"_timestamp", "_ph", "_nh3", "_temperature", "_flags",
            "_is_kelvin", "_kelvin", "_kelvin_x", "_kelvin_y", "_par",
            "_lux", "_pur"} |->
        CASE a = "_flags" -> None
          [] a = "_is_kelvin" -> PyBool(FALSE)
          [] OTHER -> PyInt(0)]

ClassDefaults(return_type) ==
    CASE return_type = "Response" -> ResponseDefaults
      [] return_type = "EnterInteractiveResponse" -> EnterInteractiveDefaults
      [] return_type = "SensorReadingResponse" -> SensorReadingDefaults

\* return_type(raw_data, read_def): the constructor call of line 610.
\* An exception leaves no object: obj is then the empty function.
NoObject == [a \in {} |-> None]

Construct(return_type, raw_data, read_def) ==
    LET r == BaseInit(ClassDefaults(return_type), raw_data, read_def)
    IN  [status |-> r.status,
         class |-> return_type,
         obj |-> IF r.status = "ok" THEN r.attrs ELSE NoObject,
         assigned |-> r.assigned]

\* no response: nothing was constructed yet
NoResult == [status |-> "none", class |-> "", obj |-> NoObject, assigned |-> <<>>]

\* a Python float n / d, kept exact as the pair <<n, d>>
TrueDiv(n, d) == [t |-> "float", v |-> <<n, d>>]
FloatEq(x, y) == x.v[1] * y.v[2] = y.v[1] * x.v[2]
Zero == TrueDiv(0, 1)

\* the properties of SensorReadingResponse
is_light_reading(obj) ==
    LET rdef == ACTION_DEFINITIONS("LIGHT_READING").read_definitions[1]
    IN  PyEq(obj["_validation_bytes"], rdef.validator)

is_kelvin(obj) == IF is_light_reading(obj) THEN obj["_is_kelvin"] ELSE None
ph(obj) == TrueDiv(obj["_ph"].v[1], 100)
nh3(obj) == TrueDiv(obj["_nh3"].v[1], 1000)
temperature(obj) == TrueDiv(obj["_temperature"].v[1], 1000)
flags(obj) == obj["_flags"]
validation_bytes(obj) == obj["_validation_bytes"]

\* int(x) of a float: truncation toward zero
IntOf(x) ==
    IF x.v[1] >= 0 THEN x.v[1] \div x.v[2] ELSE -((-x.v[1]) \div x.v[2])

\* x % m of a float x and a positive int m: a float in [0, m)
FloatMod(x, m) == TrueDiv(x.v[1] % (x.v[2] * m), x.v[2])

\* "{0}.{1}.{2}".format(major, minor, rev) of three ints
Format3(major, minor, rev) ==
    PyStr(ToString(major) \o "." \o ToString(minor) \o "." \o ToString(rev))

\* version with the minor number left unreduced: int(ver / 100)
VersionMinorUnreduced(obj) ==
    LET ver == obj["_version"].v[1]
    IN  Format3(IntOf(TrueDiv(ver, 10000)), IntOf(TrueDiv(ver, 100)),
                ver % 100)

\* EnterInteractiveResponse.version, sud.py lines 182-195.  The floats
\* ver / 10000 and (ver / 100) % 100 are kept as exact fractions: below
\* 2^31 the rounding of a double never moves one of them across an integer.
version(obj) ==
    LET ver == obj["_version"].v[1]
        major == IntOf(TrueDiv(ver, 10000))
        minor == IntOf(FloatMod(TrueDiv(ver, 100), 100))
        rev == ver % 100
    IN  Format3(major, minor, rev)

(***************************************************************************)
(* The transport.  _read returns one 64-byte packet (wMaxPacketSize, the   *)
(* array('B', [64]) of the docstrings) or raises USBError; _write returns  *)
(* or raises USBError.  A packet is its 2-byte prefix followed by one of   *)
(* NumBodies bodies.                                                       *)
(***************************************************************************)
PacketSize == 64

\* the validators of the registry and the documented BYESUD reply, 88 05,
\* which no read definition expects (sud.py line 482)
Prefixes == {<<136, 2>>, <<0, 1>>, <<0, 2>>, <<136, 1>>, <<119, 1>>, <<136, 5>>}

\* 0-based offsets of the most significant byte of the 4-byte unsigned
\* fields of SUDREADING and SUDLIGHTMETER.  The bodies keep those bytes
\* below 128, so that every unpacked value is below 2^31.
UnsignedTop == {5, 57, 61, 29, 33}

\* byte at 0-based offset i of body b; body 0 is all zero
BodyByte(b, i) ==
    LET x == (b * (i + 3) * 37) % 256
    IN  IF i \in UnsignedTop THEN x % 128 ELSE x

Packet(prefix, b) ==
    PyArray([i \in 1..PacketSize |->
                IF i <= 2 THEN prefix[i] ELSE BodyByte(b, i - 1)])

Packets == {Packet(p, b) : p \in Prefixes, b \in 0..(NumBodies - 1)}

USBError == [t |-> "USBError", v |-> <<>>]

\* what one call of _read can do
ReadOutcomes == Packets \cup {USBError}

(***************************************************************************)
(* State.                                                                  *)
(***************************************************************************)
VARIABLES
    pc,         \* where action() is: "idle", "write", "poll", or how it
                \* ended: "returned", "TimeoutError", "USBError",
                \* "ValueError", "struct.error"
    cmd,        \* the Action passed to action()
    timeout,    \* the timeout passed to action(), in clock ticks (ms)
    now,        \* the clock, time.time(), in ticks since action() was called
    start,      \* start of line 586
    rdefIdx,    \* position of the for loop in cdef.read_definitions
    data,       \* data of lines 589-602
    result,     \* what action() returned (Construct's record), or NoResult
    calls,      \* calls of action() made so far
    \* history of the current call
    nwrites,    \* calls of _write
    wrote,      \* the messages passed to _write
    nreads,     \* calls of _read
    nerrs,      \* calls of _read that raised USBError
    nmiss,      \* packets read whose prefix was not the polled validator
    matched,    \* packets that matched, one per read definition passed
    lastRead,   \* outcome of the latest _read, None before the first
    lastIdx,    \* rdefIdx during the latest _read
    \* direct construction of a response
    raw_data,   \* the packet handed to the constructor
    read_def,   \* the read definition handed to it
    built,      \* Construct's record, or NoResult
    \* the device and the transport, and a second caller of action()
    device,     \* the attributes of the SUDevice object
    pending,    \* packets the device sent that no _read has returned yet,
                \* each with the caller and the call it replies to
    lastTag,    \* caller and call of the packet the latest _read returned
    prev,       \* how the call before the current one ended
    second,     \* the locals of the second caller's action()
    stolen      \* replies to the first caller that the second caller read

actionVars == <<pc, cmd, timeout, now, start, rdefIdx, data, result, calls,
                nwrites, wrote, nreads, nerrs, nmiss, matched, lastRead, lastIdx>>
decodeVars == <<raw_data, read_def, built>>
deviceVars == <<device, pending, lastTag, prev, second, stolen>>
vars == <<actionVars, decodeVars, deviceVars>>

Ended == {"returned", "TimeoutError", "USBError", "ValueError", "struct.error"}

cdef == ACTION_DEFINITIONS(cmd)
rdef == cdef.read_definitions[rdefIdx]
Elapsed == now - start

ActionInit ==
    /\ pc = "idle"
    /\ cmd = "SENSOR_READING"
    /\ timeout = 0
    /\ now = 0
    /\ start = 0
    /\ rdefIdx = 1
    /\ data = None
    /\ result = NoResult
    /\ calls = 0
    /\ nwrites = 0
    /\ wrote = <<>>
    /\ nreads = 0
    /\ nerrs = 0
    /\ nmiss = 0
    /\ matched = <<>>
    /\ lastRead = None
    /\ lastIdx = 0

DecodeIdle ==
    /\ raw_data = None
    /\ read_def = None
    /\ built = NoResult

\* SUDevice.__init__, lines 492-553: the device found, its two endpoints
DeviceObject == [_instance |-> "dev", _ep_in |-> "ep_in", _ep_out |-> "ep_out"]

NoTag == [by |-> 0, call |-> 0]

\* the second caller before its call
SecondIdle ==
    [pc |-> "idle", cmd |-> "none", timeout |-> 0, start |-> 0, rdefIdx |-> 1,
     data |-> None, result |-> NoResult, nreads |-> 0]

DeviceIdle ==
    /\ device = DeviceObject
    /\ pending = <<>>
    /\ lastTag = NoTag
    /\ prev = "idle"
    /\ second = SecondIdle
    /\ stolen = <<>>

Init == ActionInit /\ DecodeIdle /\ DeviceIdle

(***************************************************************************)
(* SUDevice.action, sud.py lines 566-610.                                  *)
(***************************************************************************)
\* a comparison of the first byte alone
MatchesFirstByte(resp, rd) == resp.v[1] = rd.validator.v[1]

\* resp[0:2] == rdef.validator, line 601
Matches(resp, rd) ==
    PyEq([t |-> resp.t, v |-> Slice(resp.v, 0, 2)], rd.validator)

\* the comparison made with >= in place of >
TimedOutAtOrOver(t, s, limit) == (t - s) >= limit

\* the elapsed time never counted
TimedOutNever(t, s, limit) == FALSE

\* ((time.time() - start) * 1000) > timeout, line 607, the clock in ms
TimedOut(t, s, limit) == (t - s) > limit

\* the check made only while no packet has matched
RaisesTimeoutWithoutData(d, t, s, limit) ==
    (d.t = "None" \/ d.v = <<>>) /\ (t - s) > limit

\* lines 607-608 stand at the level of the while body, after the try
\* statement: the check is made in every pass, whatever data d now holds
RaisesTimeout(d, t, s, limit) == TimedOut(t, s, limit)

\* a write made for every action
HasCommandAlways(cd) == TRUE

\* cdef.cmd_str is not None, line 583
HasCommand(cd) == cd.cmd_str.t # "None"

\* the try statement without its except clause
TryReadRaises(o, cur, rd) ==
    IF o.t = "USBError" THEN [raised |-> TRUE, data |-> cur]
    ELSE IF PyEq([t |-> o.t, v |-> Slice(o.v, 0, 2)], rd.validator)
    THEN [raised |-> FALSE, data |-> o]
    ELSE [raised |-> FALSE, data |-> cur]

\* the try statement without the comparison with the validator
TryReadAcceptsAny(o, cur, rd) ==
    IF o.t = "USBError" THEN [raised |-> FALSE, data |-> cur]
    ELSE [raised |-> FALSE, data |-> o]

\* lines 598-605, the try statement: the value of data after it, given the
\* outcome o of self._read(), and whether an exception leaves it
TryRead(o, cur, rd) ==
    IF o.t = "USBError" THEN [raised |-> FALSE, data |-> cur]
    ELSE IF Matches(o, rd) THEN [raised |-> FALSE, data |-> o]
    ELSE [raised |-> FALSE, data |-> cur]

\* not data, line 597: None and the empty array are false
NotData(d) == d.t = "None" \/ d.v = <<>>

\* the call with data kept from the call before, not set to None
CallKeepsData(c, t) ==
    /\ pc \in {"idle"} \cup Ended
    /\ calls < MaxCalls
    /\ calls' = calls + 1
    /\ cmd' = c
    /\ timeout' = t
    /\ result' = NoResult
    /\ nwrites' = 0
    /\ wrote' = <<>>
    /\ nreads' = 0
    /\ nerrs' = 0
    /\ nmiss' = 0
    /\ matched' = <<>>
    /\ lastRead' = None
    /\ lastIdx' = 0
    /\ rdefIdx' = 1
    /\ data' = data
    /\ now' = 0
    /\ IF HasCommand(ACTION_DEFINITIONS(c))
       THEN pc' = "write" /\ start' = start
       ELSE pc' = "poll" /\ start' = now'
    /\ UNCHANGED decodeVars

\* lines 581-590: the call, up to the write or, without one, to the loop
Call(c, t) ==
    /\ pc \in {"idle"} \cup Ended
    /\ calls < MaxCalls
    /\ calls' = calls + 1
    /\ cmd' = c
    /\ timeout' = t
    /\ result' = NoResult
    /\ nwrites' = 0
    /\ wrote' = <<>>
    /\ nreads' = 0
    /\ nerrs' = 0
    /\ nmiss' = 0
    /\ matched' = <<>>
    /\ lastRead' = None
    /\ lastIdx' = 0
    /\ rdefIdx' = 1
    /\ data' = None
    /\ now' = 0
    /\ IF HasCommand(ACTION_DEFINITIONS(c))
       THEN pc' = "write" /\ start' = start
       ELSE pc' = "poll" /\ start' = now'
    /\ UNCHANGED decodeVars

\* the start time taken before the write instead of after it
WriteStartBefore(ok, d) ==
    /\ pc = "write"
    /\ now' = now + d
    /\ nwrites' = nwrites + 1
    /\ wrote' = Append(wrote, cdef.cmd_str)
    /\ IF ok
       THEN pc' = "poll" /\ start' = now
       ELSE pc' = "USBError" /\ start' = start
    /\ UNCHANGED <<cmd, timeout, rdefIdx, data, result, calls, nreads, nerrs,
                   nmiss, matched, lastRead, lastIdx, decodeVars>>

\* lines 584-586: self._write(cdef.cmd_str), which takes d ticks and returns
\* (ok) or raises USBError; then start = time.time()
Write(ok, d) ==
    /\ pc = "write"
    /\ now' = now + d
    /\ nwrites' = nwrites + 1
    /\ wrote' = Append(wrote, cdef.cmd_str)
    /\ IF ok
       THEN pc' = "poll" /\ start' = now'
       ELSE pc' = "USBError" /\ start' = start
    /\ UNCHANGED <<cmd, timeout, rdefIdx, data, result, calls, nreads, nerrs,
                   nmiss, matched, lastRead, lastIdx, decodeVars>>

\* the pass of the loop without line 595: data is not set to None when
\* the for loop goes on to the next read definition
PollKeepsData(o, d) ==
    LET try == TryRead(o, data, rdef)
        hit == o.t # "USBError" /\ Matches(o, rdef)
        last == rdefIdx = Len(cdef.read_definitions)
        r == Construct(rdef.return_type, try.data, rdef)
    IN  /\ pc = "poll"
        /\ nreads < MaxReads
        /\ now' = now + d
        /\ nreads' = nreads + 1
        /\ nerrs' = IF o.t = "USBError" THEN nerrs + 1 ELSE nerrs
        /\ nmiss' = IF o.t # "USBError" /\ ~hit THEN nmiss + 1 ELSE nmiss
        /\ matched' = IF hit THEN Append(matched, o) ELSE matched
        /\ lastRead' = o
        /\ lastIdx' = rdefIdx
        /\ IF try.raised
           THEN pc' = "USBError" /\ UNCHANGED <<rdefIdx, data, result>>
           ELSE IF RaisesTimeout(try.data, now', start, timeout)
           THEN pc' = "TimeoutError" /\ data' = try.data
                /\ UNCHANGED <<rdefIdx, result>>
           ELSE IF NotData(try.data)
           THEN pc' = "poll" /\ data' = try.data
                /\ UNCHANGED <<rdefIdx, result>>
           ELSE IF ~last
           THEN pc' = "poll" /\ rdefIdx' = rdefIdx + 1 /\ data' = try.data
                /\ UNCHANGED result
           ELSE /\ pc' = IF r.status = "ok" THEN "returned" ELSE r.status
                /\ result' = IF r.status = "ok" THEN r ELSE NoResult
                /\ data' = try.data
                /\ UNCHANGED rdefIdx
        /\ UNCHANGED <<cmd, timeout, start, calls, nwrites, wrote, decodeVars>>

\* lines 597-610: one pass of the while loop: self._read(), which takes d
\* ticks and has outcome o, the comparison with the validator, the timeout
\* check; then, the while loop left, the next read definition or the return
Poll(o, d) ==
    LET try == TryRead(o, data, rdef)
        hit == o.t # "USBError" /\ Matches(o, rdef)
        last == rdefIdx = Len(cdef.read_definitions)
        r == Construct(rdef.return_type, try.data, rdef)
    IN  /\ pc = "poll"
        /\ nreads < MaxReads
        /\ now' = now + d
        /\ nreads' = nreads + 1
        /\ nerrs' = IF o.t = "USBError" THEN nerrs + 1 ELSE nerrs
        /\ nmiss' = IF o.t # "USBError" /\ ~hit THEN nmiss + 1 ELSE nmiss
        /\ matched' = IF hit THEN Append(matched, o) ELSE matched
        /\ lastRead' = o
        /\ lastIdx' = rdefIdx
        /\ IF try.raised
           THEN pc' = "USBError" /\ UNCHANGED <<rdefIdx, data, result>>
           ELSE IF RaisesTimeout(try.data, now', start, timeout)
           THEN pc' = "TimeoutError" /\ data' = try.data
                /\ UNCHANGED <<rdefIdx, result>>
           ELSE IF NotData(try.data)
           THEN pc' = "poll" /\ data' = try.data
                /\ UNCHANGED <<rdefIdx, result>>
           ELSE IF ~last
           THEN pc' = "poll" /\ rdefIdx' = rdefIdx + 1 /\ data' = None
                /\ UNCHANGED result
           ELSE /\ pc' = IF r.status = "ok" THEN "returned" ELSE r.status
                /\ result' = IF r.status = "ok" THEN r ELSE NoResult
                /\ data' = try.data
                /\ UNCHANGED rdefIdx
        /\ UNCHANGED <<cmd, timeout, start, calls, nwrites, wrote, decodeVars>>

Next ==
    \/ \E c \in Action, t \in 0..MaxTimeout :
           Call(c, t) /\ UNCHANGED deviceVars
    \/ \E ok \in BOOLEAN, d \in 0..MaxAdvance :
           Write(ok, d) /\ UNCHANGED deviceVars
    \/ \E o \in ReadOutcomes, d \in 0..MaxAdvance :
           Poll(o, d) /\ UNCHANGED deviceVars

Spec == Init /\ [][Next]_vars

(***************************************************************************)
(* The constructors called directly, on any packet and read definition:    *)
(* those of the registry, and definitions put together from the layouts    *)
(* and name lists of the source in other ways.                             *)
(***************************************************************************)
ReadDefs ==
    UNION {{ACTION_DEFINITIONS(c).read_definitions[i] :
                i \in 1..Len(ACTION_DEFINITIONS(c).read_definitions)} :
           c \in Action}
    \cup {ReadDefinition(GENERIC_RESPONSE, PyArray(<<136, 2>>),
                         HELLOSUD_RETURN_VALUES, "Response"),
          ReadDefinition(HELLOSUD_RESPONSE, PyArray(<<136, 1>>),
                         GENERIC_RETURN_VALUES, "EnterInteractiveResponse"),
          ReadDefinition(SUDREADING, PyArray(<<0, 2>>),
                         LIGHT_SENSOR_RETURN_VALUES, "SensorReadingResponse"),
          ReadDefinition(SUDREADING, PyArray(<<0, 2>>),
                         SENSOR_RETURN_VALUES, "SensorReadingResponse"),
          ReadDefinition(RESPONSE, PyArray(<<136, 2>>),
                         GENERIC_RETURN_VALUES, "Response"),
          ReadDefinition(RESPONSE, PyArray(<<136, 2>>),
                         <<"validation_bytes", "ack">>, "Response")}

\* the packets of the transport, and their first 3 bytes alone
RawInputs == Packets \cup {PyArray(Slice(p.v, 0, 3)) : p \in Packets}

DecodeInit ==
    /\ ActionInit
    /\ raw_data \in RawInputs
    /\ read_def \in ReadDefs
    /\ built = NoResult
    /\ DeviceIdle

\* read_def.return_type(raw_data, read_def)
Build ==
    /\ built.status = "none"
    /\ built' = Construct(read_def.return_type, raw_data, read_def)
    /\ UNCHANGED <<actionVars, raw_data, read_def, deviceVars>>

\* the next constructor call
Pick(p, rd) ==
    /\ built.status # "none"
    /\ raw_data' = p
    /\ read_def' = rd
    /\ built' = NoResult
    /\ UNCHANGED <<actionVars, deviceVars>>

DecodeNext ==
    \/ Build
    \/ \E p \in RawInputs, rd \in ReadDefs : Pick(p, rd)

DecodeSpec == DecodeInit /\ [][DecodeNext]_vars

(***************************************************************************)
(* Properties.                                                             *)
(***************************************************************************)
\* the read definitions of the action being run, and its last one
rdefs == cdef.read_definitions
lastRdef == rdefs[Len(rdefs)]
\* the first 2 bytes of a packet
Prefix(p) == SubSeq(p.v, 1, 2)
\* the latest read returned a packet with the validator of the read
\* definition that was being polled
LastReadMatched ==
    /\ pc \in {"poll", "returned", "TimeoutError"}
    /\ lastRead.t = "array"
    /\ Prefix(lastRead) = rdefs[lastIdx].validator.v

\* C1: for an action with a single read definition, when the transport
\* returned N packets that do not match the validator and then one that
\* does (no read raised), the elapsed time staying within the timeout,
\* action() has made exactly N+1 reads and has returned the response
\* decoded from the matching packet, the last one read; and it returns
\* from no other packet.
C1_ExactlyNPlusOneReads ==
    /\ (Len(rdefs) = 1 /\ nerrs = 0 /\ LastReadMatched /\ Elapsed <= timeout)
       => /\ pc = "returned"
          /\ nreads = nmiss + 1
          /\ result = Construct(rdefs[1].return_type, lastRead, rdefs[1])
          /\ result.status = "ok"
    /\ (Len(rdefs) = 1 /\ pc = "returned")
       => /\ LastReadMatched
          /\ nreads = nmiss + nerrs + 1
          /\ PyEq(validation_bytes(result.obj), rdefs[1].validator)

\* C1 witness: two non-matching packets, then the matching one, returned
C1_Witness ==
    /\ pc = "returned"
    /\ Len(rdefs) = 1
    /\ nerrs = 0
    /\ nmiss = 2
    /\ nreads = 3

\* no packet has matched in this call, and at least one read was made
NoMatchYet == matched = <<>> /\ nreads > 0 /\ pc \in {"poll"} \cup Ended

\* C2: while no packet has matched the polled validator, action() keeps
\* polling as long as the elapsed time measured after a read is within the
\* timeout and raises TimeoutError at the first read after which it exceeds
\* the timeout; it never returns; and once it has raised, no further read
\* is made in that call.
C2_TimeoutAtFirstExceed ==
    /\ [](NoMatchYet =>
            /\ pc \in {"poll", "TimeoutError"}
            /\ (pc = "TimeoutError") <=> (Elapsed > timeout))
    /\ [][(pc = "TimeoutError" /\ calls' = calls) =>
            (nreads' = nreads /\ pc' = "TimeoutError")]_vars

\* C2 witness: three reads, none matching, the third past the timeout
C2_Witness ==
    /\ pc = "TimeoutError"
    /\ matched = <<>>
    /\ nreads = 3
    /\ timeout = 1

\* C3 as stated: for SENSOR_READING, once the packets read contain the ack
\* packet followed by the payload packet, action() has returned the
\* SensorReadingResponse decoded from the payload packet.
C3_Original ==
    (cmd = "SENSOR_READING" /\ Len(matched) = 2)
    => /\ pc = "returned"
       /\ result = Construct("SensorReadingResponse", matched[2], rdefs[2])

\* C3 as amended: for SENSOR_READING, once the packets read contain the ack
\* packet (88 02) followed, possibly after packets that match neither, by
\* the payload packet (00 01), and the elapsed time measured after the read
\* of the payload is within the timeout, action() has returned the
\* SensorReadingResponse decoded from the payload packet; whenever it
\* returns, the response is decoded from a payload packet read after the
\* ack, never from the ack packet.
C3_AckThenPayload ==
    /\ (cmd = "SENSOR_READING" /\ Len(matched) = 2 /\ Elapsed <= timeout)
       => pc = "returned"
    /\ (cmd = "SENSOR_READING" /\ pc = "returned")
       => /\ Len(matched) = 2
          /\ Prefix(matched[1]) = <<136, 2>>
          /\ Prefix(matched[2]) = <<0, 1>>
          /\ lastRead = matched[2]
          /\ result = Construct("SensorReadingResponse", matched[2], rdefs[2])
          /\ result.status = "ok"
          /\ result.class = "SensorReadingResponse"
          /\ validation_bytes(result.obj).v = <<0, 1>>
          /\ "_ack" \notin DOMAIN result.obj

\* C3 witness: the ack, a packet that matches neither, then the payload
C3_Witness ==
    /\ cmd = "SENSOR_READING"
    /\ pc = "returned"
    /\ nmiss = 1
    /\ nreads = 3

\* C4 as stated: a call of action() ends only by returning a response, by
\* a timeout or by a decode mismatch, never with the transport's error.
C4_Original == pc \in Ended => pc \in {"returned", "TimeoutError", "ValueError"}

\* C4 as amended: a transport error on a read never ends a call: once the
\* command write has returned, the call ends only by returning a response,
\* by a timeout or by a decode mismatch.  A transport error on the command
\* write is not caught: it ends the call with USBError, before any read.
C4_OnlyWriteErrorEscapes ==
    /\ pc \in Ended => pc \in {"returned", "TimeoutError", "ValueError", "USBError"}
    /\ pc = "USBError" => (nreads = 0 /\ nwrites = 1 /\ HasCommand(cdef))
    /\ nerrs > 0 => pc \in {"poll", "returned", "TimeoutError", "ValueError"}

\* C4 witness: a read raised, and the call went on to return a response
C4_Witness ==
    /\ pc = "returned"
    /\ nerrs > 0
    /\ nwrites = 1

\* C5: after a read that raised USBError the call is still polling the
\* same read definition, with the matches made so far kept and no data, or
\* has raised TimeoutError, and it has raised exactly when the elapsed time,
\* the time of the failed read included, exceeds the timeout; a run of
\* nothing but read errors never ends with the transport's error.
C5_ReadErrorSwallowed ==
    /\ (pc \in {"poll"} \cup Ended /\ lastRead.t = "USBError")
       => /\ pc \in {"poll", "TimeoutError"}
          /\ rdefIdx = lastIdx
          /\ Len(matched) = rdefIdx - 1
          /\ NotData(data)
          /\ (pc = "TimeoutError") <=> (Elapsed > timeout)
    /\ (nreads > 0 /\ nerrs = nreads) => pc \in {"poll", "TimeoutError"}

\* C5 witness: the ack of SENSOR_READING matched, then two reads raised and
\* the second one ran past the timeout
C5_Witness ==
    /\ cmd = "SENSOR_READING"
    /\ pc = "TimeoutError"
    /\ Len(matched) = 1
    /\ nerrs = 2
    /\ lastRead.t = "USBError"

\* the messages each action is to write
CommandOf ==
    [c \in Action |->
        CASE c = "SENSOR_READING" -> <<PyStr("READING")>>
          [] c = "ENTER_INTERACTIVE_MODE" -> <<PyStr("HELLOSUD")>>
          [] c = "LEAVE_INTERACTIVE_MODE" -> <<PyStr("BYESUD")>>
          [] c = "LIGHT_READING" -> <<>>]

\* C6: action() calls _write at most once, with the action's command
\* string, while no read has been made yet, and it does so exactly for the
\* actions that have a command string (READING, HELLOSUD, BYESUD);
\* LIGHT_READING writes nothing and only reads.
C6_WriteOnceBeforeReads ==
    /\ nwrites <= 1
    /\ Len(wrote) = nwrites
    /\ pc = "write" => (nwrites = 0 /\ nreads = 0 /\ cmd # "LIGHT_READING")
    /\ pc \in {"poll"} \cup Ended => wrote = CommandOf[cmd]
    /\ (calls > 0 /\ cmd = "LIGHT_READING") => nwrites = 0

\* C6 witness: SENSOR_READING has written READING and returned after 2 reads
C6_Witness ==
    /\ pc = "returned"
    /\ cmd = "SENSOR_READING"
    /\ wrote = <<PyStr("READING")>>
    /\ nreads = 2

\* the latest read was made while polling the last read definition and
\* returned a packet with its validator
LastRdefMatched == LastReadMatched /\ lastIdx = Len(rdefs)

\* C7 as stated: whenever a read made while polling the last read
\* definition returns a packet with its validator, action() returns the
\* decoded response and raises no timeout.
C7_Original == LastRdefMatched => pc = "returned"

\* C7 as amended: TimeoutError is raised only when the elapsed time
\* exceeded the timeout, with or without a validator match: when a read
\* made while polling the last read definition returns a matching packet
\* and the elapsed time measured after that read is within the timeout,
\* action() returns the response decoded from it; when that elapsed time
\* exceeds the timeout, action() raises TimeoutError although the packet
\* matched.
C7_TimeoutOnlyByElapsed ==
    /\ pc = "TimeoutError" => Elapsed > timeout
    /\ (LastRdefMatched /\ Elapsed <= timeout)
       => /\ pc = "returned"
          /\ result = Construct(lastRdef.return_type, lastRead, lastRdef)
    /\ (LastRdefMatched /\ Elapsed > timeout)
       => /\ pc = "TimeoutError"
          /\ result = NoResult

\* C7 witness: the matching packet of the last read definition arrived in
\* a read that ended past the timeout
C7_Witness ==
    /\ LastRdefMatched
    /\ pc = "TimeoutError"
    /\ data = lastRead

\* the number of values a format unpacks to, counted from the format
RECURSIVE ValueCount(_)
ValueCount(fmt) ==
    IF fmt = <<>> THEN 0
    ELSE (IF fmt[1][2] = "s" THEN 1 ELSE fmt[1][1]) + ValueCount(Tail(fmt))

\* the positions at which a name occurs in a list of names
Positions(names, n) == {i \in 1..Len(names) : names[i] = n}

\* the packet is as long as the layout of the read definition
Decodable == Len(raw_data.v) = CalcSize(Fields(read_def.parse_str))

WithPrefix(p, prefix) ==
    [t |-> p.t, v |-> [i \in 1..Len(p.v) |-> IF i <= 2 THEN prefix[i] ELSE p.v[i]]]

\* C9: a SensorReadingResponse reports is_light_reading exactly when its
\* validation_bytes, the first 2 bytes of its packet, are 00 02; of two
\* responses decoded from packets that differ in the prefix alone, the one
\* of 00 02 reports true and the one of 00 01 false, all other attributes
\* being equal; and no other attribute changes the answer.
C9_IsLightReading ==
    (built.status = "ok" /\ built.class = "SensorReadingResponse") =>
        LET light == Construct(built.class, WithPrefix(raw_data, <<0, 2>>), read_def)
            sensor == Construct(built.class, WithPrefix(raw_data, <<0, 1>>), read_def)
        IN  /\ validation_bytes(built.obj).v = Prefix(raw_data)
            /\ is_light_reading(built.obj) <=> (Prefix(raw_data) = <<0, 2>>)
            /\ light.status = "ok" /\ sensor.status = "ok"
            /\ is_light_reading(light.obj)
            /\ ~is_light_reading(sensor.obj)
            /\ \A a \in DOMAIN light.obj \ {"_validation_bytes"} :
                    light.obj[a] = sensor.obj[a]
            /\ \A a \in DOMAIN built.obj \ {"_validation_bytes"} :
                    is_light_reading(SetAttr(built.obj, a, PyBool(TRUE)))
                       = is_light_reading(built.obj)

\* C9 witness: a 00 02 packet decoded with the layout and the names of the
\* sensor reading reports a light reading
C9_Witness ==
    /\ built.status = "ok"
    /\ read_def.parse_str = SUDREADING
    /\ read_def.return_values = SENSOR_RETURN_VALUES
    /\ is_light_reading(built.obj)
    /\ flags(built.obj).t = "bytes"

\* C10: every response action(LIGHT_READING) returns has flags None and
\* ph, nh3 and temperature 0.0, whatever the bytes of the packet; every
\* response action(SENSOR_READING) returns has flags that are not None.
C10_LightLeavesSensorFields ==
    /\ (pc = "returned" /\ cmd = "LIGHT_READING")
       => /\ result.class = "SensorReadingResponse"
          /\ flags(result.obj) = None
          /\ FloatEq(ph(result.obj), Zero)
          /\ FloatEq(nh3(result.obj), Zero)
          /\ FloatEq(temperature(result.obj), Zero)
    /\ (pc = "returned" /\ cmd = "SENSOR_READING")
       => flags(result.obj).t # "None"

\* C10 witness: a light reading returned from a packet whose bytes at the
\* offsets of flags, ph, nh3 and temperature in the sensor layout are not 0
C10_Witness ==
    /\ pc = "returned"
    /\ cmd = "LIGHT_READING"
    /\ \A i \in 7..18 : lastRead.v[i] # 0
    /\ is_light_reading(result.obj)

\* the class and the validation prefix of the response each action returns,
\* read off the registry of sud.py lines 449-486
ExpectedClass ==
    [c \in Action |->
        CASE c = "SENSOR_READING" -> "SensorReadingResponse"
          [] c = "LIGHT_READING" -> "SensorReadingResponse"
          [] c = "ENTER_INTERACTIVE_MODE" -> "EnterInteractiveResponse"
          [] c = "LEAVE_INTERACTIVE_MODE" -> "Response"]

ExpectedPrefix ==
    [c \in Action |->
        CASE c = "SENSOR_READING" -> <<0, 1>>
          [] c = "LIGHT_READING" -> <<0, 2>>
          [] c = "ENTER_INTERACTIVE_MODE" -> <<136, 1>>
          [] c = "LEAVE_INTERACTIVE_MODE" -> <<119, 1>>]

\* C11: every response action() returns is built from the last read
\* definition of the action: its class is that definition's return type,
\* its validation_bytes equal that definition's validator and are the
\* first 2 bytes of the packet read last; so whatever packets were read, a
\* SENSOR_READING result reports is_light_reading false and a
\* LIGHT_READING result true.
C11_BuiltFromLastDefinition ==
    pc = "returned" =>
        /\ result.status = "ok"
        /\ result.class = lastRdef.return_type
        /\ result.class = ExpectedClass[cmd]
        /\ PyEq(validation_bytes(result.obj), lastRdef.validator)
        /\ validation_bytes(result.obj) = PyArray(ExpectedPrefix[cmd])
        /\ validation_bytes(result.obj).v = Prefix(lastRead)
        /\ cmd = "SENSOR_READING" => ~is_light_reading(result.obj)
        /\ cmd = "LIGHT_READING" => is_light_reading(result.obj)

C11_Witness ==
    /\ pc = "returned"
    /\ cmd = "LIGHT_READING"
    /\ nmiss > 0
    /\ result.class = "SensorReadingResponse"
    /\ is_light_reading(result.obj)

(***************************************************************************)
(* The version of the device.  The reply to HELLOSUD carries the version   *)
(* in the 'H' field of HELLOSUD_RESPONSE, bytes 4 and 5 of the packet; the  *)
(* specification below decodes the reply for every value of that field.    *)
(***************************************************************************)
Byte == 0..255

\* the reply to HELLOSUD of a device of type 3 with the version bytes lo, hi
HelloPacket(lo, hi) ==
    PyArray([i \in 1..PacketSize |->
                CASE i = 1 -> 136
                  [] i = 2 -> 1
                  [] i = 3 -> 1
                  [] i = 4 -> 3
                  [] i = 5 -> lo
                  [] i = 6 -> hi
                  [] OTHER -> 0])

VersionInit ==
    /\ ActionInit
    /\ raw_data \in {HelloPacket(lo, hi) : lo \in Byte, hi \in Byte}
    /\ read_def = EnterAction.read_definitions[1]
    /\ built = NoResult
    /\ DeviceIdle

VersionNext == Build

VersionSpec == VersionInit /\ [][VersionNext]_vars

\* the version string of an EnterInteractiveResponse whose _version is n
VersionOf(n) == version(SetAttr(EnterInteractiveDefaults, "_version", PyInt(n)))

\* "major.minor.rev" of n in integer arithmetic
Dotted(n) ==
    PyStr(ToString(n \div 10000) \o "." \o ToString((n \div 100) % 100)
          \o "." \o ToString(n % 100))

\* C12: for every value v of the 2-byte unsigned version field, 0..65535,
\* the version of the decoded EnterInteractiveResponse is the string
\* "major.minor.rev" with major = v div 10000, minor = (v div 100) mod 100
\* and rev = v mod 100; and so it is for a _version of 0, 10203 and 90909,
\* which give "0.0.0", "1.2.3" and "9.9.9".
C12_VersionString ==
    /\ built.status # "none" =>
          /\ built.status = "ok"
          /\ built.obj["_version"] =
                 PyInt(raw_data.v[5] + 256 * raw_data.v[6])
          /\ version(built.obj) = Dotted(built.obj["_version"].v[1])
    /\ VersionOf(0) = PyStr("0.0.0")
    /\ VersionOf(10203) = PyStr("1.2.3")
    /\ VersionOf(90909) = PyStr("9.9.9")
    /\ VersionOf(90909) = Dotted(90909)

C12_Witness ==
    /\ built.status = "ok"
    /\ built.class = "EnterInteractiveResponse"
    /\ built.obj["_version"] = PyInt(10203)
    /\ version(built.obj) = PyStr("1.2.3")

\* the read definitions of the two payloads
SensorPayloadDef == SensorAction.read_definitions[2]
LightPayloadDef == LightAction.read_definitions[1]

\* the light fields both payloads name, with type code and size in bytes
LightFields ==
    { <<"kelvin", "i", 4>>, <<"kelvin_x", "i", 4>>, <<"kelvin_y", "i", 4>>,
      <<"par", "I", 4>>, <<"lux", "I", 4>>, <<"pur", "B", 1>> }

\* 0-based byte offset of each light field in the light payload
LightOffset ==
    [n \in {f[1] : f \in LightFields} |->
        CASE n = "kelvin" -> 14
          [] n = "kelvin_x" -> 18
          [] n = "kelvin_y" -> 22
          [] n = "par" -> 26
          [] n = "lux" -> 30
          [] n = "pur" -> 34]

\* the value of type code at 0-based offset off of a packet
ValueAt(p, code, off, size) ==
    PyInt(IF code = "i" THEN LESigned(SubSeq(p.v, off + 1, off + size))
          ELSE LEUnsigned(SubSeq(p.v, off + 1, off + size)))

\* the other payload definition, and its validator
OtherPayloadDef ==
    IF read_def = SensorPayloadDef THEN LightPayloadDef ELSE SensorPayloadDef

\* C14 as stated: the sensor payload and the light payload are decoded with
\* the same field layout, the same named fields read from the same byte
\* offsets: a packet decoded as the one payload and the packet of the same
\* bytes after the prefix decoded as the other give the same light fields.
C14_Original ==
    (built.status = "ok" /\ read_def \in {SensorPayloadDef, LightPayloadDef}) =>
        LET q == WithPrefix(raw_data, OtherPayloadDef.validator.v)
            other == Construct(OtherPayloadDef.return_type, q, OtherPayloadDef)
        IN  /\ read_def.parse_str = OtherPayloadDef.parse_str
            /\ \A f \in LightFields :
                   built.obj["_" \o f[1]] = other.obj["_" \o f[1]]

\* C14 as amended: the sensor payload is decoded with SUDREADING and the
\* light payload with SUDLIGHTMETER, two different layouts; both give a
\* SensorReadingResponse with the light fields kelvin, kelvin_x, kelvin_y,
\* par, lux, pur of the same types and order, read from offsets 14, 18, 22,
\* 26, 30, 34 of the light payload and 28 bytes further, from 42, 46, 50,
\* 54, 58, 62, of the sensor payload; is_light_reading follows from the
\* validation prefix alone.
C14_TwoLayoutsOneClass ==
    /\ SensorPayloadDef.parse_str = SUDREADING
    /\ LightPayloadDef.parse_str = SUDLIGHTMETER
    /\ SUDREADING # SUDLIGHTMETER
    /\ (raw_data # None /\ Len(raw_data.v) = PacketSize) =>
          \A rd \in {SensorPayloadDef, LightPayloadDef} :
              LET r == Construct(rd.return_type, raw_data, rd)
                  shift == IF rd = SensorPayloadDef THEN 28 ELSE 0
              IN  /\ r.status = "ok"
                  /\ r.class = "SensorReadingResponse"
                  /\ \A f \in LightFields :
                        r.obj["_" \o f[1]] =
                            ValueAt(raw_data, f[2], LightOffset[f[1]] + shift, f[3])
                  /\ is_light_reading(r.obj) <=> Prefix(raw_data) = <<0, 2>>
    /\ (built.status = "ok" /\ read_def \in {SensorPayloadDef, LightPayloadDef}) =>
          built = Construct(read_def.return_type, raw_data, read_def)

C14_Witness ==
    /\ built.status = "ok"
    /\ read_def = LightPayloadDef
    /\ Prefix(raw_data) = <<0, 2>>
    /\ built.obj["_kelvin"] = ValueAt(raw_data, "i", 14, 4)
    /\ built.obj["_kelvin"] # ValueAt(raw_data, "i", 42, 4)
    /\ is_light_reading(built.obj)

\* the packet p with the bytes bs written at 0-based offset off
WithBytes(p, off, bs) ==
    [t |-> p.t,
     v |-> [i \in 1..Len(p.v) |->
               IF i > off /\ i <= off + Len(bs) THEN bs[i - off] ELSE p.v[i]]]

\* -100 as a 4-byte little-endian two's complement integer
MinusHundred == <<156, 255, 255, 255>>

\* the sensor payload decoded from the packet p
SensorDecode(p) ==
    Construct(SensorPayloadDef.return_type, p, SensorPayloadDef)

\* C15 as stated: in the layout of the sensor payload ph, nh3 and
\* temperature are 4-byte signed little-endian integers, in that order,
\* right after the 2-byte header, the 4-byte timestamp and the 2-byte
\* flags, that is at offsets 8, 12 and 16; a raw ph of -100 written there
\* is exposed as -1.0.
C15_Original ==
    (built.status = "ok" /\ read_def = SensorPayloadDef) =>
        /\ built.obj["_ph"] = ValueAt(raw_data, "i", 8, 4)
        /\ built.obj["_nh3"] = ValueAt(raw_data, "i", 12, 4)
        /\ built.obj["_temperature"] = ValueAt(raw_data, "i", 16, 4)
        /\ LET r == SensorDecode(WithBytes(raw_data, 8, MinusHundred))
           IN  /\ r.obj["_ph"] = PyInt(-100)
               /\ FloatEq(ph(r.obj), TrueDiv(-1, 1))

\* C15 as amended: in the layout of the sensor payload, after the 2-byte
\* header, the 4-byte unsigned timestamp, the 2-byte flags and a 2-byte
\* unused field, ph and nh3 are 2-byte unsigned little-endian integers at
\* offsets 10 and 12 and temperature is a 4-byte signed little-endian
\* integer at offset 14; the raw ph is in 0..65535, so no negative ph is
\* representable: the bytes of -100 written at the offset of ph are
\* exposed as 654.36.
C15_TwoByteUnsignedPh ==
    /\ (built.status = "ok" /\ read_def = SensorPayloadDef) =>
          /\ built.obj["_timestamp"] = ValueAt(raw_data, "I", 2, 4)
          /\ built.obj["_flags"] = PyBytes(SubSeq(raw_data.v, 7, 8))
          /\ built.obj["_ph"] = ValueAt(raw_data, "H", 10, 2)
          /\ built.obj["_nh3"] = ValueAt(raw_data, "H", 12, 2)
          /\ built.obj["_temperature"] = ValueAt(raw_data, "i", 14, 4)
          /\ built.obj["_ph"].v[1] \in 0..65535
          /\ built.obj["_nh3"].v[1] \in 0..65535
          /\ FloatEq(ph(built.obj), TrueDiv(built.obj["_ph"].v[1], 100))
    /\ LET r == SensorDecode(WithBytes(Packet(<<0, 1>>, 0), 10, MinusHundred))
       IN  /\ r.status = "ok"
           /\ r.obj["_ph"] = PyInt(65436)
           /\ r.obj["_nh3"] = PyInt(65535)
           /\ FloatEq(ph(r.obj), TrueDiv(65436, 100))
    /\ LET r == SensorDecode(WithBytes(Packet(<<0, 1>>, 0), 14, MinusHundred))
       IN  /\ r.obj["_temperature"] = PyInt(-100)
           /\ FloatEq(temperature(r.obj), TrueDiv(-1, 10))

C15_Witness ==
    /\ built.status = "ok"
    /\ read_def = SensorPayloadDef
    /\ Prefix(raw_data) = <<0, 1>>
    /\ built.obj["_ph"] = ValueAt(raw_data, "H", 10, 2)
    /\ built.obj["_ph"] # ValueAt(raw_data, "i", 8, 4)
    /\ built.obj["_ph"].v[1] > 0

\* C17: the timeout budget is shared by all read definitions of one action:
\* the start time is the time at which the write ended (the time of the
\* call when nothing is written), no pass of the polling loop changes it,
\* not the one that advances to the next read definition either; after
\* every read, matching or not, the action has raised TimeoutError exactly
\* when the time elapsed since then exceeds the timeout; and an action that
\* raised TimeoutError has returned nothing, whatever matched before.
C17_SharedBudget ==
    /\ []((pc = "poll" /\ nreads = 0) => start = now)
    /\ [][pc = "poll" => start' = start]_vars
    /\ [][(pc = "poll" /\ rdefIdx' # rdefIdx) =>
              (start' = start /\ timeout' = timeout /\ pc' = "poll")]_vars
    /\ []((nreads > 0 /\ pc \in {"poll", "returned", "TimeoutError"}) =>
              (pc = "TimeoutError" <=> Elapsed > timeout))
    /\ [](pc = "TimeoutError" => result = NoResult)

C17_Witness ==
    /\ pc = "TimeoutError"
    /\ cmd = "SENSOR_READING"
    /\ Len(matched) = 1
    /\ Prefix(matched[1]) = <<136, 2>>
    /\ lastIdx = 2
    /\ nreads = 2
    /\ Elapsed > timeout
    /\ result = NoResult

\* C18: every read definition of the registry is well-formed for a packet
\* of 64 bytes: its layout unpacks as many values as it declares names and
\* covers exactly 64 bytes; so no action ever ends in the ValueError of the
\* count check or in struct.error, and the response an action returns has
\* one assignment per declared name of its last read definition.
C18_RegistryWellFormed ==
    /\ \A c \in Action :
          \A i \in 1..Len(ACTION_DEFINITIONS(c).read_definitions) :
              LET rd == ACTION_DEFINITIONS(c).read_definitions[i]
              IN  /\ ValueCount(rd.parse_str) = Len(rd.return_values)
                  /\ CalcSize(Fields(rd.parse_str)) = PacketSize
                  /\ Len(Fields(rd.parse_str)) = Len(rd.return_values)
    /\ pc \notin {"ValueError", "struct.error"}
    /\ LastRdefMatched =>
          Construct(lastRdef.return_type, lastRead, lastRdef).status = "ok"
    /\ pc = "returned" =>
          /\ result.status = "ok"
          /\ Len(result.assigned) = Len(lastRdef.return_values)

C18_Witness ==
    /\ pc = "returned"
    /\ cmd = "LEAVE_INTERACTIVE_MODE"
    /\ Len(lastRead.v) = PacketSize
    /\ Len(result.assigned) = 3

(***************************************************************************)
(* Termination.  Every _write and every _read returns or raises, and the   *)
(* clock advances: each _read takes at least one tick.  Both are the       *)
(* conditions under which action() is said to terminate; the weak fairness *)
(* of the write and of the polling pass says that a pending _write or      *)
(* _read does come back.  No call is ever forced.                          *)
(***************************************************************************)
LiveMaxTimeout == MaxTimeout + 1

LiveWrite ==
    \E ok \in BOOLEAN, d \in 0..MaxAdvance :
        Write(ok, d) /\ UNCHANGED deviceVars

LivePoll ==
    \E o \in ReadOutcomes, d \in 1..MaxAdvance :
        Poll(o, d) /\ UNCHANGED deviceVars

LiveNext ==
    \/ \E c \in Action, t \in 0..LiveMaxTimeout :
           Call(c, t) /\ UNCHANGED deviceVars
    \/ LiveWrite
    \/ LivePoll

LiveSpec ==
    Init /\ [][LiveNext]_vars /\ WF_vars(LiveWrite) /\ WF_vars(LivePoll)

\* C19: when every write and every read returns or fails and the clock
\* advances, every call of action(), for every action and every timeout,
\* ends: it returns a decoded response or raises; a call that returned has
\* its response, one that raised has none, and the next call begins only
\* after the one before has ended.
C19_ActionTerminates ==
    /\ (pc \in {"write", "poll"}) ~> (pc \in Ended)
    /\ [][(pc \in {"write", "poll"}) =>
              (cmd' = cmd /\ timeout' = timeout /\ calls' = calls)]_vars
    /\ [](pc \in Ended => (pc = "returned" <=> result # NoResult))
    /\ [][calls' # calls => pc \in {"idle"} \cup Ended]_vars

C19_Witness ==
    /\ pc = "returned"
    /\ cmd = "SENSOR_READING"
    /\ timeout = LiveMaxTimeout
    /\ nreads = 2
    /\ Elapsed = 2

(***************************************************************************)
(* The device on the transport.  The device answers a command with the     *)
(* packets the read definitions of the action expect, in their order       *)
(* (sud.py lines 449-486), and sends light readings, 00 02, unasked.  The   *)
(* transport keeps what the device sent until a _read returns it, oldest   *)
(* first; a _read made before the packet has arrived raises USBError.      *)
(* action() discards nothing before it writes (lines 581-586).             *)
(***************************************************************************)
MaxPending == 2

\* the replies of the device to the command of action c, written by caller
\* by in its call k
Replies(c, by, k) ==
    LET rds == ACTION_DEFINITIONS(c).read_definitions
    IN  [i \in 1..Len(rds) |->
            [pkt |-> Packet(rds[i].validator.v, k % NumBodies),
             by |-> by, call |-> k]]

\* a light reading nobody asked for
Unsolicited == [pkt |-> Packet(<<0, 2>>, 1 % NumBodies), by |-> 0, call |-> 0]

\* self._read(): the oldest pending packet, or USBError when late is true
\* or nothing is pending
ReadPending(late) ==
    IF late \/ pending = <<>> THEN USBError ELSE Head(pending).pkt

\* what is pending after that read
AfterRead(o) == IF o.t = "USBError" THEN pending ELSE Tail(pending)

DevCall(c, t) ==
    /\ Call(c, t)
    /\ prev' = pc
    /\ lastTag' = NoTag
    /\ UNCHANGED <<device, pending, second, stolen>>

DevWrite(ok, d) ==
    /\ Write(ok, d)
    /\ pending' = IF ok THEN pending \o Replies(cmd, 1, calls) ELSE pending
    /\ UNCHANGED <<device, lastTag, prev, second, stolen>>

DevPoll(late, d) ==
    LET o == ReadPending(late)
    IN  /\ Poll(o, d)
        /\ pending' = AfterRead(o)
        /\ lastTag' = IF o.t = "USBError" THEN lastTag
                      ELSE [by |-> Head(pending).by, call |-> Head(pending).call]
        /\ UNCHANGED <<device, prev, second, stolen>>

\* the device sends a light reading
DevEmit ==
    /\ Len(pending) < MaxPending
    /\ pending' = Append(pending, Unsolicited)
    /\ UNCHANGED <<actionVars, decodeVars, device, lastTag, prev, second, stolen>>

DeviceNext ==
    \/ \E c \in Action, t \in 0..MaxTimeout : DevCall(c, t)
    \/ \E ok \in BOOLEAN, d \in 0..MaxAdvance : DevWrite(ok, d)
    \/ \E late \in BOOLEAN, d \in 0..MaxAdvance : DevPoll(late, d)
    \/ DevEmit

DeviceSpec == Init /\ [][DeviceNext]_vars

\* C13: a timeout ends that one action only: the device object is what
\* __init__ made it, and a call made after a call that raised TimeoutError
\* starts as a first call does and, when a read made while polling its
\* last read definition returns a packet with that validator within its
\* own timeout, returns the response decoded from that packet; it returns
\* in no other case.
C13_UsableAfterTimeout ==
    /\ device = DeviceObject
    /\ prev = "TimeoutError" =>
          /\ (pc \in {"write", "poll"} /\ nreads = 0) =>
                (rdefIdx = 1 /\ data = None /\ result = NoResult)
          /\ (LastRdefMatched /\ Elapsed <= timeout) =>
                /\ pc = "returned"
                /\ result.status = "ok"
                /\ result = Construct(lastRdef.return_type, lastRead, lastRdef)
          /\ pc = "returned" => (LastRdefMatched /\ Elapsed <= timeout)

C13_Witness ==
    /\ prev = "TimeoutError"
    /\ calls = 2
    /\ pc = "returned"
    /\ cmd = "SENSOR_READING"
    /\ lastTag = [by |-> 1, call |-> 2]
    /\ result.status = "ok"

\* C20 as stated: the response an action with a command returns is decoded
\* from a packet the device sent in reply to the command written by that
\* same call, never from a reply to an earlier call that is still pending.
C20_ReplyOfSameCall ==
    (pc = "returned" /\ HasCommand(cdef)) =>
        lastTag = [by |-> 1, call |-> calls]

(***************************************************************************)
(* Two callers of action() on one SUDevice.  action() takes no lock and    *)
(* keeps its state in locals, so the calls interleave at their _write and  *)
(* _read calls.  The caller named first is the one whose call starts       *)
(* first; each makes one call.  The locals of the second are the record    *)
(* second, which PollPass takes through one pass of the polling loop as    *)
(* Poll takes the variables of the first.                                  *)
(***************************************************************************)
\* lines 597-610 on the locals st: the pass whose _read had outcome o and
\* ended at time t
PollPass(st, o, t) ==
    LET cd == ACTION_DEFINITIONS(st.cmd)
        rd == cd.read_definitions[st.rdefIdx]
        try == TryRead(o, st.data, rd)
        last == st.rdefIdx = Len(cd.read_definitions)
        r == Construct(rd.return_type, try.data, rd)
    IN  IF try.raised
        THEN [st EXCEPT !.pc = "USBError"]
        ELSE IF RaisesTimeout(try.data, t, st.start, st.timeout)
        THEN [st EXCEPT !.pc = "TimeoutError", !.data = try.data]
        ELSE IF NotData(try.data)
        THEN [st EXCEPT !.data = try.data]
        ELSE IF ~last
        THEN [st EXCEPT !.rdefIdx = @ + 1, !.data = None]
        ELSE [st EXCEPT !.pc = IF r.status = "ok" THEN "returned" ELSE r.status,
                        !.result = IF r.status = "ok" THEN r ELSE NoResult,
                        !.data = try.data]

ConcCall(c, t) ==
    /\ calls = 0
    /\ DevCall(c, t)

\* lines 581-590 for the second caller
SecondCall(c, t) ==
    /\ calls = 1
    /\ second.pc = "idle"
    /\ second' = [second EXCEPT
                     !.cmd = c, !.timeout = t, !.rdefIdx = 1, !.data = None,
                     !.pc = IF HasCommand(ACTION_DEFINITIONS(c))
                            THEN "write" ELSE "poll",
                     !.start = now]
    /\ UNCHANGED <<actionVars, decodeVars, device, pending, lastTag, prev,
                   stolen>>

\* lines 584-586 for the second caller
SecondWrite(ok, d) ==
    /\ second.pc = "write"
    /\ now' = now + d
    /\ second' = [second EXCEPT !.pc = IF ok THEN "poll" ELSE "USBError",
                                !.start = IF ok THEN now' ELSE @]
    /\ pending' = IF ok THEN pending \o Replies(second.cmd, 2, 1) ELSE pending
    /\ UNCHANGED <<pc, cmd, timeout, start, rdefIdx, data, result, calls,
                   nwrites, wrote, nreads, nerrs, nmiss, matched, lastRead,
                   lastIdx, decodeVars, device, lastTag, prev, stolen>>

\* lines 597-610 for the second caller
SecondPoll(late, d) ==
    LET o == ReadPending(late)
    IN  /\ second.pc = "poll"
        /\ second.nreads < MaxReads
        /\ now' = now + d
        /\ second' = [PollPass(second, o, now') EXCEPT !.nreads = @ + 1]
        /\ pending' = AfterRead(o)
        /\ stolen' = IF o.t # "USBError" /\ Head(pending).by = 1
                     THEN Append(stolen, Head(pending)) ELSE stolen
        /\ UNCHANGED <<pc, cmd, timeout, start, rdefIdx, data, result, calls,
                       nwrites, wrote, nreads, nerrs, nmiss, matched, lastRead,
                       lastIdx, decodeVars, device, lastTag, prev>>

\* a write takes no tick here, a read none or one
ConcNext ==
    \/ \E c \in Action, t \in 0..MaxTimeout : ConcCall(c, t)
    \/ \E ok \in BOOLEAN : DevWrite(ok, 0)
    \/ \E late \in BOOLEAN, d \in 0..1 : DevPoll(late, d)
    \/ \E c \in Action, t \in 0..MaxTimeout : SecondCall(c, t)
    \/ \E ok \in BOOLEAN : SecondWrite(ok, 0)
    \/ \E late \in BOOLEAN, d \in 0..1 : SecondPoll(late, d)

ConcSpec == Init /\ [][ConcNext]_vars

\* the packets still pending
PendingSet == {pending[i] : i \in 1..Len(pending)}

\* C16: two calls of action() polling one transport with nothing to
\* serialize them: a reply to the first call that the second call reads
\* is gone from the transport; when the second call is for another action
\* the packet does not match there and is dropped, and the first call,
\* though the device sent what it waits for, cannot return any more: it
\* ends, if it ends, in TimeoutError.
C16_StolenPacketIsLost ==
    \A i \in 1..Len(stolen) :
        /\ stolen[i].by = 1
        /\ stolen[i] \notin PendingSet
        /\ wrote # <<>>
        /\ second.cmd # cmd =>
              /\ second.data # stolen[i].pkt
              /\ second.result.status = "ok" =>
                    validation_bytes(second.result.obj).v # Prefix(stolen[i].pkt)
              /\ pc # "returned"
              /\ pc \in Ended => pc = "TimeoutError"

C16_Witness ==
    /\ pc = "TimeoutError"
    /\ cmd = "SENSOR_READING"
    /\ Len(matched) = 1
    /\ second.cmd = "ENTER_INTERACTIVE_MODE"
    /\ Len(stolen) = 1
    /\ Prefix(stolen[1].pkt) = lastRdef.validator.v
    /\ second.data = None
    /\ pending # <<>>

\* the validators of the read definitions after the one being polled
LaterValidators == {rdefs[i].validator.v : i \in (rdefIdx + 1)..Len(rdefs)}

\* C21: while action() polls for one read definition, a packet whose first
\* 2 bytes are not that definition's validator is consumed and dropped,
\* also when they are the validator of a later read definition: the pass
\* leaves data None, the read definition polled and the packets matched as
\* they were, and goes on polling or raises TimeoutError.  Each packet
\* that counts for a read definition was read while that definition was
\* polled, so for SENSOR_READING the response is decoded from a 00 01
\* packet read after the 88 02 ack, and a call that ends without one ends
\* in TimeoutError or, by its write, in USBError.
C21_EarlyPacketDropped ==
    /\ [][(pc = "poll" /\ nreads' = nreads + 1 /\ lastRead'.t = "array"
           /\ Prefix(lastRead') # rdef.validator.v) =>
              /\ data = None /\ data' = None
              /\ rdefIdx' = rdefIdx
              /\ matched' = matched
              /\ nmiss' = nmiss + 1
              /\ result' = NoResult
              /\ pc' \in {"poll", "TimeoutError"}]_vars
    /\ [](pc = "poll" =>
              /\ data = None
              /\ Len(matched) = rdefIdx - 1
              /\ \A i \in 1..Len(matched) :
                     Prefix(matched[i]) = rdefs[i].validator.v)
    /\ []((pc = "returned" /\ cmd = "SENSOR_READING") =>
              /\ Len(matched) = 2
              /\ Prefix(matched[1]) = <<136, 2>>
              /\ Prefix(matched[2]) = <<0, 1>>
              /\ lastIdx = 2 /\ lastRead = matched[2]
              /\ nreads >= 2
              /\ result = Construct("SensorReadingResponse", matched[2],
                                    SensorAction.read_definitions[2]))
    /\ []((pc \in Ended /\ cmd = "SENSOR_READING" /\ Len(matched) < 2) =>
              /\ pc \in {"TimeoutError", "USBError"}
              /\ pc = "USBError" => nreads = 0
              /\ result = NoResult)

C21_Witness ==
    /\ cmd = "SENSOR_READING"
    /\ pc = "poll"
    /\ rdefIdx = 1
    /\ lastIdx = 1
    /\ lastRead.t = "array"
    /\ Prefix(lastRead) = <<0, 1>>
    /\ Prefix(lastRead) \in LaterValidators
    /\ nmiss = 1
    /\ matched = <<>>
    /\ data = None

====
